---- MODULE Spec2Model ----
(***************************************************************************)
(* A model of retailApp.py: the cached loaders load_sales_data and         *)
(* load_rfm_data, and main, the Streamlit script that is re-executed from  *)
(* the top on every user interaction.                                      *)
(*                                                                         *)
(* Representation.  A table (DataFrame) is a sequence of records; the      *)
(* field "index" is the pandas index label, i.e. the row's position in the *)
(* CSV file.  Price and TotalPrice are exact numbers counted in the        *)
(* smallest currency unit; float64 rounding is not represented.  A product *)
(* Description and an Invoice are numbers (a Description's number is its   *)
(* rank in string order).  A raw timestamp is its fields [y, m, d, h];     *)
(* a raw customer identifier is [kind, v] with v counted in tenths.        *)
(***************************************************************************)
EXTENDS Integers, Sequences, FiniteSets, TLC

VARIABLES
    file,               \* contents of 'combined_data.csv' on disk
    rfmFile,            \* contents of 'rfm.csv' on disk
    salesCache,         \* st.cache_data memo of load_sales_data, keyed by the path
    rfmCache,           \* st.cache_data memo of load_rfm_data
    fileReads,          \* number of pd.read_csv calls on 'combined_data.csv'
    loadedRaw,          \* the file contents seen by the one read that filled salesCache
    pc,                 \* position of the current run of main
    df,                 \* main: df
    errors,             \* st.error messages shown in the current run
    selected_countries, \* main: selected_countries
    invoked,            \* the stages of the sales pipeline invoked in the current run
    filtered_df,        \* main: filtered_df
    kpi,                \* main: total_revenue, total_orders, unique_customers, total_items_sold
    monthly_sales,      \* main: monthly_sales
    top_products,       \* main: top_products
    daily_sales,        \* main: daily_sales
    rfm_df,             \* main: rfm_df
    rfmView,            \* main: what the RFM section rendered in the current run
    prevRun             \* what the previous run of main ended with

vars == <<file, rfmFile, salesCache, rfmCache, fileReads, loadedRaw, pc, df, errors,
          selected_countries, invoked, filtered_df, kpi, monthly_sales,
          top_products, daily_sales, rfm_df, rfmView, prevRun>>

(***************************************************************************)
(* Bounds of the model.                                                    *)
(***************************************************************************)
MaxRows == 2        \* rows of a sales file in Init
MaxPerDay == 1      \* rows per calendar day in InitWeek
NDesc == 11         \* distinct product descriptions in InitTop
NSeg == 4           \* segments present in the RFM file in InitRfm
MaxReads == 3       \* cap of the fileReads counter

(***************************************************************************)
(* Generic helpers over sequences and sets.                                *)
(***************************************************************************)
Range(s) == {s[i] : i \in 1..Len(s)}

Col(t, c) == [i \in 1..Len(t) |-> t[i][c]]

RECURSIVE SumSeq(_)
SumSeq(s) == IF s = <<>> THEN 0 ELSE Head(s) + SumSeq(Tail(s))

MinOf(S) == CHOOSE x \in S : \A y \in S : x <= y

RECURSIVE SortedSeq(_)
SortedSeq(S) == IF S = {} THEN <<>>
                ELSE LET m == MinOf(S) IN <<m>> \o SortedSeq(S \ {m})

\* Series.unique(): the distinct values in order of first appearance.
RECURSIVE Unique(_)
Unique(s) ==
    IF s = <<>> THEN <<>>
    ELSE LET u == Unique(SubSeq(s, 1, Len(s) - 1))
             x == s[Len(s)]
         IN IF x \in Range(u) THEN u ELSE Append(u, x)

\* Series.nunique()
NUnique(s) == Cardinality(Range(s))

IndexOf(s, x) == CHOOSE i \in 1..Len(s) : s[i] = x

(***************************************************************************)
(* Timestamps: pd.to_datetime and the .dt accessors.                       *)
(***************************************************************************)
IsLeap(y) == (y % 4 = 0 /\ y % 100 # 0) \/ y % 400 = 0

DaysInMonth(y, m) ==
    IF m \in {4, 6, 9, 11} THEN 30
    ELSE IF m = 2 THEN (IF IsLeap(y) THEN 29 ELSE 28)
    ELSE 31

\* pd.to_datetime accepts a value exactly when it denotes a calendar instant.
Parsable(ts) ==
    /\ ts.m \in 1..12
    /\ ts.d \in 1..DaysInMonth(ts.y, ts.m)
    /\ ts.h \in 0..23

\* .dt.to_period('M').astype(str): 'YYYY-MM'; the number 100*y + m is ordered as
\* that string is for four-digit years.
to_period_M(ts) == 100 * ts.y + ts.m

MonthOffset == <<0, 3, 2, 5, 0, 3, 5, 1, 4, 6, 2, 4>>

WeekdayNames == <<"Sunday", "Monday", "Tuesday", "Wednesday", "Thursday", "Friday",
                  "Saturday">>

\* .dt.day_name(): the English name of the Gregorian weekday.
day_name(ts) ==
    LET y == IF ts.m < 3 THEN ts.y - 1 ELSE ts.y
        w == (y + (y \div 4) - (y \div 100) + (y \div 400) + MonthOffset[ts.m] + ts.d) % 7
    IN WeekdayNames[w + 1]

(***************************************************************************)
(* load_sales_data.  A CSV file is [readable, missing, rows]: whether      *)
(* pd.read_csv can read it, the columns absent from its header, and its    *)
(* rows.  The value returned is [none, rows, err]: none for Python's None, *)
(* err for the exception text passed to st.error.                          *)
(***************************************************************************)
NoneDf(msg) == [none |-> TRUE, rows |-> <<>>, err |-> msg]

SomeDf(t) == [none |-> FALSE, rows |-> t, err |-> ""]

\* pd.read_csv: the rows, labelled 0, 1, ... by the default RangeIndex.
read_csv(f) ==
    [i \in 1..Len(f.rows) |->
        [index |-> i - 1,
         Invoice |-> f.rows[i].Invoice,
         Description |-> f.rows[i].Description,
         Quantity |-> f.rows[i].Quantity,
         Price |-> f.rows[i].Price,
         InvoiceDate |-> f.rows[i].InvoiceDate,
         CustomerID |-> f.rows[i].CustomerID,
         Country |-> f.rows[i].Country]]

\* Variant: unparsable timestamps are let through (errors='coerce').
to_datetime_never_raises(t) == FALSE

\* pd.to_datetime(df['InvoiceDate']) raises when some value is not a timestamp.
to_datetime_raises(t) == \E i \in 1..Len(t) : ~Parsable(t[i].InvoiceDate)

\* df.dropna(subset=['Customer ID'], inplace=True)
dropna_CustomerID(t) == SelectSeq(t, LAMBDA r : r.CustomerID.kind # "nan")

\* .astype(int) raises on a value that is not a number.
astype_int_raises(t) == \E i \in 1..Len(t) : t[i].CustomerID.kind = "str"

\* .astype(int) truncates a float64 towards zero (v is counted in tenths).
astype_int(t) ==
    [i \in 1..Len(t) |-> [t[i] EXCEPT !.CustomerID = t[i].CustomerID.v \div 10]]

\* Variant: the comparison is >= instead of >.
FilterQuantity_NonNegative(t) == SelectSeq(t, LAMBDA r : r.Quantity >= 0)

\* df = df[df['Quantity'] > 0]
FilterQuantity(t) == SelectSeq(t, LAMBDA r : r.Quantity > 0)

\* df = df[df['Price'] > 0]
FilterPrice(t) == SelectSeq(t, LAMBDA r : r.Price > 0)

\* The four derived columns TotalPrice, InvoiceMonth, Hour and DayOfWeek.
AddDerived(t) ==
    [i \in 1..Len(t) |->
        [index |-> t[i].index,
         Invoice |-> t[i].Invoice,
         Description |-> t[i].Description,
         Quantity |-> t[i].Quantity,
         Price |-> t[i].Price,
         InvoiceDate |-> t[i].InvoiceDate,
         CustomerID |-> t[i].CustomerID,
         Country |-> t[i].Country,
         TotalPrice |-> t[i].Quantity * t[i].Price,
         InvoiceMonth |-> to_period_M(t[i].InvoiceDate),
         Hour |-> t[i].InvoiceDate.h,
         DayOfWeek |-> day_name(t[i].InvoiceDate)]]

\* The body of load_sales_data, statement by statement; every exception is
\* caught by the except clause and turned into None.
load_sales_data(f) ==
    IF ~f.readable THEN NoneDf("FileNotFoundError")
    ELSE IF "InvoiceDate" \in f.missing THEN NoneDf("KeyError: 'InvoiceDate'")
    ELSE IF to_datetime_raises(read_csv(f)) THEN NoneDf("ValueError: time data")
    ELSE IF "Customer ID" \in f.missing THEN NoneDf("KeyError: ['Customer ID']")
    ELSE IF astype_int_raises(dropna_CustomerID(read_csv(f)))
         THEN NoneDf("ValueError: invalid literal for int()")
    ELSE IF "Quantity" \in f.missing THEN NoneDf("KeyError: 'Quantity'")
    ELSE IF "Price" \in f.missing THEN NoneDf("KeyError: 'Price'")
    ELSE SomeDf(AddDerived(FilterPrice(FilterQuantity(
                    astype_int(dropna_CustomerID(read_csv(f)))))))

\* Variant: the loader is not memoised.
cache_never_hit(c) == FALSE

\* st.cache_data: a call is answered from the memo when the key (the path) is in it.
cache_hit(c) == c.filled

(***************************************************************************)
(* load_rfm_data.  A raw RFM row is [recency, frequency, monetary,         *)
(* segment]; the loader renames the four columns.                          *)
(***************************************************************************)
rename_columns(rows) ==
    [i \in 1..Len(rows) |->
        [Recency |-> rows[i].recency,
         Frequency |-> rows[i].frequency,
         Monetary |-> rows[i].monetary,
         Segment |-> rows[i].segment]]

load_rfm_data(f) ==
    IF ~f.readable THEN NoneDf("FileNotFoundError")
    ELSE SomeDf(rename_columns(f.rows))

(***************************************************************************)
(* The sales pipeline of main: the country filter, the four KPI            *)
(* reductions and the three aggregations.                                  *)
(***************************************************************************)
\* DataFrame.sort_values / Series.nlargest: a stable sort on the key K, ascending.
RECURSIVE InsertSorted(_, _, _)
InsertSorted(order, i, keys) ==
    IF order = <<>> THEN <<i>>
    ELSE IF keys[order[Len(order)]] <= keys[i] THEN Append(order, i)
    ELSE Append(InsertSorted(SubSeq(order, 1, Len(order) - 1), i, keys), order[Len(order)])

\* The positions 1..n of keys, stably sorted by key.
RECURSIVE SortOrder(_, _)
SortOrder(keys, n) ==
    IF n = 0 THEN <<>> ELSE InsertSorted(SortOrder(keys, n - 1), n, keys)

\* The rows of s, stably sorted by the keys given alongside (keys[i] for s[i]).
SortBy(s, keys) ==
    LET order == SortOrder(keys, Len(s))
    IN [i \in 1..Len(s) |-> s[order[i]]]

\* sorted(df['Country'].unique()); only membership is used, so a set.
all_countries_of(t) == Range(Col(t, "Country"))

\* default_selection (lines 70-73)
default_selection(select_all, all_countries) ==
    IF select_all THEN all_countries
    ELSE IF "United Kingdom" \in all_countries THEN {"United Kingdom"} ELSE {}

\* df[df['Country'].isin(selected_countries)]
FilterCountries(t, selected) == SelectSeq(t, LAMBDA r : r.Country \in selected)

\* The four KPI scalars of lines 88-91.
Kpis(t) ==
    [total_revenue |-> SumSeq(Col(t, "TotalPrice")),
     total_orders |-> NUnique(Col(t, "Invoice")),
     unique_customers |-> NUnique(Col(t, "CustomerID")),
     total_items_sold |-> SumSeq(Col(t, "Quantity"))]

NoKpis == [total_revenue |-> 0, total_orders |-> 0, unique_customers |-> 0,
           total_items_sold |-> 0]

\* groupby(key)[val].sum() for one group
GroupSum(t, key, k, val) == SumSeq(Col(SelectSeq(t, LAMBDA r : r[key] = k), val))

\* Variant: the column summed is Quantity.
MonthlySales_WrongColumn(t) ==
    LET months == SortedSeq(Range(Col(t, "InvoiceMonth")))
        grouped == [i \in 1..Len(months) |->
                       [InvoiceMonth |-> months[i],
                        TotalPrice |-> GroupSum(t, "InvoiceMonth", months[i], "Quantity")]]
    IN SortBy(grouped, Col(grouped, "InvoiceMonth"))

\* groupby('InvoiceMonth')['TotalPrice'].sum().reset_index().sort_values('InvoiceMonth')
MonthlySales(t) ==
    LET months == SortedSeq(Range(Col(t, "InvoiceMonth")))
        grouped == [i \in 1..Len(months) |->
                       [InvoiceMonth |-> months[i],
                        TotalPrice |-> GroupSum(t, "InvoiceMonth", months[i], "TotalPrice")]]
    IN SortBy(grouped, Col(grouped, "InvoiceMonth"))

TopN == 10

\* groupby('Description')['Quantity'].sum(): one row per description, keys ascending.
QuantityByDescription(t) ==
    LET descs == SortedSeq(Range(Col(t, "Description")))
    IN [i \in 1..Len(descs) |->
           [Description |-> descs[i],
            Quantity |-> GroupSum(t, "Description", descs[i], "Quantity")]]

\* Variant: the n smallest, smallest first.
nsmallest(s, n) ==
    LET sorted == SortBy(s, Col(s, "Quantity"))
    IN SubSeq(sorted, 1, IF Len(sorted) < n THEN Len(sorted) ELSE n)

\* Series.nlargest(n): the n largest, largest first; equal values keep their order.
nlargest(s, n) ==
    LET sorted == SortBy(s, [i \in 1..Len(s) |-> 0 - s[i].Quantity])
    IN SubSeq(sorted, 1, IF Len(sorted) < n THEN Len(sorted) ELSE n)

TopProducts(t) == nlargest(QuantityByDescription(t), TopN)

days_order == <<"Monday", "Tuesday", "Wednesday", "Thursday", "Friday", "Saturday",
                "Sunday">>

\* The order in which groupby lists string keys: sorted as strings.
DayNamesSorted == <<"Friday", "Monday", "Saturday", "Sunday", "Thursday", "Tuesday",
                    "Wednesday">>

\* groupby('DayOfWeek')['TotalPrice'].sum().reset_index(): the days that occur.
RevenueByDay(t) ==
    LET present == SelectSeq(DayNamesSorted, LAMBDA d : d \in Range(Col(t, "DayOfWeek")))
    IN [i \in 1..Len(present) |->
           [DayOfWeek |-> present[i],
            TotalPrice |-> GroupSum(t, "DayOfWeek", present[i], "TotalPrice")]]

\* Variant: the group sums are left in groupby order.
DailySales_Unsorted(t) == RevenueByDay(t)

\* Lines 115-118: the group sums as a Categorical over days_order, sorted by it.
DailySales(t) ==
    LET grouped == RevenueByDay(t)
    IN SortBy(grouped, [i \in 1..Len(grouped) |-> IndexOf(days_order, grouped[i].DayOfWeek)])

(***************************************************************************)
(* The RFM section of main.  A mean is kept as the exact fraction          *)
(* sum/count; two means are compared as fractions.                         *)
(***************************************************************************)
custom_order == <<"hibernating", "loyal_customers", "champions", "at_risk",
                  "potential_loyalists", "about_to_sleep", "need_attention",
                  "promising", "cant_loose", "new_customers">>

\* The order in which groupby lists the segment keys: sorted as strings.
SegmentsSorted == <<"about_to_sleep", "at_risk", "cant_loose", "champions", "hibernating",
                    "loyal_customers", "need_attention", "new_customers",
                    "potential_loyalists", "promising">>

CountWhere(t, key, k) == Cardinality({i \in 1..Len(t) : t[i][key] = k})

\* rfm_df['Segment'].value_counts(): counts, largest first, ties in order of appearance.
SegmentCounts(t) ==
    LET segs == Unique(Col(t, "Segment"))
        counts == [i \in 1..Len(segs) |->
                      [Segment |-> segs[i], count |-> CountWhere(t, "Segment", segs[i])]]
    IN SortBy(counts, [i \in 1..Len(counts) |-> 0 - counts[i].count])

\* px.treemap(rfm_df, path=[..., 'Segment'], values='Monetary'): Monetary summed by segment.
Treemap(t) ==
    LET segs == Unique(Col(t, "Segment"))
    IN [i \in 1..Len(segs) |->
           [Segment |-> segs[i], Monetary |-> GroupSum(t, "Segment", segs[i], "Monetary")]]

MeanLe(a, b) == a.sum * b.count <= b.sum * a.count

\* == on two means; a mean over no rows is NaN, which equals nothing.
MeanEq(a, b) == a.count > 0 /\ b.count > 0 /\ a.sum * b.count = b.sum * a.count

\* Lines 194-201: mean Frequency per segment, in the order of custom_order.
MeanFrequency(t) ==
    LET present == SelectSeq(SegmentsSorted, LAMBDA g : g \in Range(Col(t, "Segment")))
        grouped == [i \in 1..Len(present) |->
                       [Segment |-> present[i],
                        Frequency |-> [sum |-> GroupSum(t, "Segment", present[i], "Frequency"),
                                       count |-> CountWhere(t, "Segment", present[i])]]]
    IN SortBy(grouped, [i \in 1..Len(grouped) |-> IndexOf(custom_order, grouped[i].Segment)])

NaN == [sum |-> 0, count |-> 0]

\* mean_freq['Frequency'].max()
max_freq(mf) ==
    IF mf = <<>> THEN NaN
    ELSE CHOOSE m \in Range(Col(mf, "Frequency")) :
             \A x \in Range(Col(mf, "Frequency")) : MeanLe(x, m)

\* mean_freq['Frequency'].min()
min_freq(mf) ==
    IF mf = <<>> THEN NaN
    ELSE CHOOSE m \in Range(Col(mf, "Frequency")) :
             \A x \in Range(Col(mf, "Frequency")) : MeanLe(m, x)

\* Variant: only the first segment that attains the maximum (idxmax).
highest_segments_idxmax(mf) ==
    IF mf = <<>> THEN {}
    ELSE {mf[CHOOSE i \in 1..Len(mf) :
                 /\ MeanEq(mf[i].Frequency, max_freq(mf))
                 /\ \A j \in 1..(i - 1) : ~MeanEq(mf[j].Frequency, max_freq(mf))].Segment}

\* mean_freq[mean_freq['Frequency'] == max_freq]['Segment'].tolist()
highest_segments(mf) ==
    {mf[i].Segment : i \in {j \in 1..Len(mf) : MeanEq(mf[j].Frequency, max_freq(mf))}}

\* mean_freq[mean_freq['Frequency'] == min_freq]['Segment'].tolist()
lowest_segments(mf) ==
    {mf[i].Segment : i \in {j \in 1..Len(mf) : MeanEq(mf[j].Frequency, min_freq(mf))}}

\* Variant: the lowest list is tested first.
assign_color_group_LowestFirst(segment, highest, lowest) ==
    IF segment \in lowest THEN "Lowest Frequency"
    ELSE IF segment \in highest THEN "Highest Frequency"
    ELSE "Mid-Range"

\* assign_color_group, with the two lists it closes over as parameters.
assign_color_group(segment, highest, lowest) ==
    IF segment \in highest THEN "Highest Frequency"
    ELSE IF segment \in lowest THEN "Lowest Frequency"
    ELSE "Mid-Range"

\* mean_freq['ColorGroup'] = mean_freq['Segment'].apply(assign_color_group)
WithColorGroup(mf) ==
    [i \in 1..Len(mf) |->
        [Segment |-> mf[i].Segment,
         Frequency |-> mf[i].Frequency,
         ColorGroup |-> assign_color_group(mf[i].Segment, highest_segments(mf),
                                           lowest_segments(mf))]]

\* What the RFM section hands to its four charts.
RfmSectionView(t) ==
    [rendered |-> TRUE,
     segment_counts |-> SegmentCounts(t),
     treemap |-> Treemap(t),
     mean_freq |-> WithColorGroup(MeanFrequency(t))]

NoView == [rendered |-> FALSE, segment_counts |-> <<>>, treemap |-> <<>>,
           mean_freq |-> <<>>]

(***************************************************************************)
(* main, one action per stage.  pc is the stage the run is about to        *)
(* execute: "start", "widgets", "check", "filter", "charts", "rfm",        *)
(* "rfmsection"; "stopped" after st.stop(), "done" at the end of main.     *)
(***************************************************************************)
EmptyCache == [filled |-> FALSE, value |-> NoneDf("")]

\* Line 60: df = load_sales_data('combined_data.csv'), through st.cache_data.
LoadSales ==
    /\ pc = "start"
    /\ IF cache_hit(salesCache)
       THEN /\ df' = salesCache.value
            /\ UNCHANGED <<salesCache, fileReads, loadedRaw>>
       ELSE /\ fileReads < MaxReads
            /\ df' = load_sales_data(file)
            /\ salesCache' = [filled |-> TRUE, value |-> load_sales_data(file)]
            /\ fileReads' = fileReads + 1
            /\ loadedRaw' = file
    /\ errors' = IF df'.none THEN {df'.err} ELSE {}
    /\ pc' = IF df'.none THEN "rfm" ELSE "widgets"
    /\ UNCHANGED <<file, rfmFile, rfmCache, selected_countries, invoked, filtered_df, kpi,
                   monthly_sales, top_products, daily_sales, rfm_df, rfmView, prevRun>>

\* Lines 66-79: the checkbox and the multiselect.  The multiselect returns its
\* default until the user edits it, and then any subset of its options.
Widgets ==
    /\ pc = "widgets"
    /\ \E select_all \in BOOLEAN, edited \in BOOLEAN :
         \E choice \in SUBSET all_countries_of(df.rows) :
            selected_countries' =
                IF edited THEN choice
                ELSE default_selection(select_all, all_countries_of(df.rows))
    /\ pc' = "check"
    /\ UNCHANGED <<file, rfmFile, salesCache, rfmCache, fileReads, loadedRaw, df, errors,
                   invoked, filtered_df, kpi, monthly_sales, top_products, daily_sales,
                   rfm_df, rfmView, prevRun>>

\* Variant: the warning is shown but the run is not stopped.
CheckSelection_NoStop ==
    /\ pc = "check"
    /\ pc' = "filter"
    /\ UNCHANGED <<file, rfmFile, salesCache, rfmCache, fileReads, loadedRaw, df, errors,
                   selected_countries, invoked, filtered_df, kpi, monthly_sales,
                   top_products, daily_sales, rfm_df, rfmView, prevRun>>

\* Lines 81-83: st.warning and st.stop() on an empty selection; st.stop() ends the run.
CheckSelection ==
    /\ pc = "check"
    /\ pc' = IF selected_countries = {} THEN "stopped" ELSE "filter"
    /\ UNCHANGED <<file, rfmFile, salesCache, rfmCache, fileReads, loadedRaw, df, errors,
                   selected_countries, invoked, filtered_df, kpi, monthly_sales,
                   top_products, daily_sales, rfm_df, rfmView, prevRun>>

\* Lines 85-97: the country filter and the four KPI reductions.
FilterAndKpis ==
    /\ pc = "filter"
    /\ filtered_df' = FilterCountries(df.rows, selected_countries)
    /\ kpi' = Kpis(filtered_df')
    /\ invoked' = invoked \cup {"filter", "total_revenue", "total_orders",
                                "unique_customers", "total_items_sold"}
    /\ pc' = "charts"
    /\ UNCHANGED <<file, rfmFile, salesCache, rfmCache, fileReads, loadedRaw, df, errors,
                   selected_countries, monthly_sales, top_products, daily_sales, rfm_df,
                   rfmView, prevRun>>

\* Lines 101-120: the monthly, top-product and weekday aggregations.
Aggregations ==
    /\ pc = "charts"
    /\ monthly_sales' = MonthlySales(filtered_df)
    /\ top_products' = TopProducts(filtered_df)
    /\ daily_sales' = DailySales(filtered_df)
    /\ invoked' = invoked \cup {"monthly_sales", "top_products", "daily_sales"}
    /\ pc' = "rfm"
    /\ UNCHANGED <<file, rfmFile, salesCache, rfmCache, fileReads, loadedRaw, df, errors,
                   selected_countries, filtered_df, kpi, rfm_df, rfmView, prevRun>>

\* Line 128: rfm_df = load_rfm_data('rfm.csv'), through st.cache_data.
LoadRfm ==
    /\ pc = "rfm"
    /\ IF cache_hit(rfmCache)
       THEN /\ rfm_df' = rfmCache.value
            /\ UNCHANGED rfmCache
       ELSE /\ rfm_df' = load_rfm_data(rfmFile)
            /\ rfmCache' = [filled |-> TRUE, value |-> load_rfm_data(rfmFile)]
    /\ errors' = IF rfm_df'.none THEN errors \cup {rfm_df'.err} ELSE errors
    /\ pc' = IF rfm_df'.none THEN "done" ELSE "rfmsection"
    /\ UNCHANGED <<file, rfmFile, salesCache, fileReads, loadedRaw, df, selected_countries,
                   invoked, filtered_df, kpi, monthly_sales, top_products, daily_sales,
                   rfmView, prevRun>>

\* Lines 131-235: the RFM section.
RfmSection ==
    /\ pc = "rfmsection"
    /\ rfmView' = RfmSectionView(rfm_df.rows)
    /\ pc' = "done"
    /\ UNCHANGED <<file, rfmFile, salesCache, rfmCache, fileReads, loadedRaw, df, errors,
                   selected_countries, invoked, filtered_df, kpi, monthly_sales,
                   top_products, daily_sales, rfm_df, prevRun>>

\* A user interaction after the run has ended: Streamlit executes main again from
\* the top; only the two memos survive.
Rerun ==
    /\ pc \in {"done", "stopped"}
    /\ prevRun' = [ended |-> TRUE, selected_countries |-> selected_countries,
                   rfmView |-> rfmView]
    /\ pc' = "start"
    /\ df' = NoneDf("")
    /\ errors' = {}
    /\ selected_countries' = {}
    /\ invoked' = {}
    /\ filtered_df' = <<>>
    /\ kpi' = NoKpis
    /\ monthly_sales' = <<>>
    /\ top_products' = <<>>
    /\ daily_sales' = <<>>
    /\ rfm_df' = NoneDf("")
    /\ rfmView' = NoView
    /\ UNCHANGED <<file, rfmFile, salesCache, rfmCache, fileReads, loadedRaw>>

(***************************************************************************)
(* The input files the specifications start from.                          *)
(***************************************************************************)
TS(y, m, d, h) == [y |-> y, m |-> m, d |-> d, h |-> h]

NumId(v) == [kind |-> "num", v |-> v]
MissingId == [kind |-> "nan", v |-> 0]
TextId == [kind |-> "str", v |-> 0]

LoaderColumns == {"InvoiceDate", "Customer ID", "Quantity", "Price"}

UKRow == [Invoice |-> 1, Description |-> 1, Quantity |-> 2, Price |-> 3,
          InvoiceDate |-> TS(2011, 1, 3, 10), CustomerID |-> NumId(10),
          Country |-> "United Kingdom"]

FRRow == [Invoice |-> 2, Description |-> 2, Quantity |-> 1, Price |-> 5,
          InvoiceDate |-> TS(2011, 2, 1, 15), CustomerID |-> NumId(25),
          Country |-> "France"]

NotADate == TS(2011, 2, 30, 10)

\* Two clean rows, and rows that break one cleaning rule or one parse each.
RowUniverse ==
    {UKRow, FRRow,
     [UKRow EXCEPT !.Quantity = 0],
     [FRRow EXCEPT !.Quantity = -1],
     [UKRow EXCEPT !.Price = 0],
     [FRRow EXCEPT !.Price = -4],
     [UKRow EXCEPT !.CustomerID = MissingId],
     [FRRow EXCEPT !.CustomerID = TextId],
     [UKRow EXCEPT !.InvoiceDate = NotADate],
     [FRRow EXCEPT !.CustomerID = MissingId, !.InvoiceDate = NotADate]}

TablesUpTo(n) == UNION {[1..k -> RowUniverse] : k \in 0..n}

CsvFile(rows) == [readable |-> TRUE, missing |-> {}, rows |-> rows]

RfmRow(seg, f, m) == [recency |-> 1, frequency |-> f, monetary |-> m, segment |-> seg]

SmallRfmFile ==
    [readable |-> TRUE,
     rows |-> <<RfmRow("champions", 5, 40), RfmRow("hibernating", 1, 10),
                RfmRow("champions", 3, 20)>>]

UnreadableRfmFile == [readable |-> FALSE, rows |-> <<>>]

\* What the file is overwritten with while the application is running.
ReplacementFiles == {CsvFile(<<FRRow, UKRow, UKRow>>),
                     [readable |-> FALSE, missing |-> {}, rows |-> <<>>]}

\* The file on disk is replaced between two runs of main.
ChangeFile ==
    /\ pc = "start"
    /\ file' \in ReplacementFiles \ {file}
    /\ UNCHANGED <<rfmFile, salesCache, rfmCache, fileReads, loadedRaw, pc, df, errors,
                   selected_countries, invoked, filtered_df, kpi, monthly_sales,
                   top_products, daily_sales, rfm_df, rfmView, prevRun>>

\* The state of the process before the first run of main.
Fresh(f, r) ==
    /\ file = f
    /\ rfmFile = r
    /\ salesCache = EmptyCache
    /\ rfmCache = EmptyCache
    /\ fileReads = 0
    /\ loadedRaw = [readable |-> FALSE, missing |-> {}, rows |-> <<>>]
    /\ pc = "start"
    /\ df = NoneDf("")
    /\ errors = {}
    /\ selected_countries = {}
    /\ invoked = {}
    /\ filtered_df = <<>>
    /\ kpi = NoKpis
    /\ monthly_sales = <<>>
    /\ top_products = <<>>
    /\ daily_sales = <<>>
    /\ rfm_df = NoneDf("")
    /\ rfmView = NoView
    /\ prevRun = [ended |-> FALSE, selected_countries |-> {}, rfmView |-> NoView]

\* Well-formed files of up to MaxRows rows, and files that cannot be read or
\* lack one of the columns the loader uses.
Init ==
    \E r \in {SmallRfmFile, UnreadableRfmFile} :
        \/ \E rows \in TablesUpTo(MaxRows) : Fresh(CsvFile(rows), r)
        \/ \E b \in BOOLEAN, c \in LoaderColumns, rows \in TablesUpTo(1) :
              Fresh([readable |-> b, missing |-> {c}, rows |-> rows], r)

\* One run of main.
RunNext ==
    \/ LoadSales
    \/ Widgets
    \/ CheckSelection
    \/ FilterAndKpis
    \/ Aggregations
    \/ LoadRfm
    \/ RfmSection

Next ==
    \/ LoadSales
    \/ Widgets
    \/ CheckSelection
    \/ FilterAndKpis
    \/ Aggregations
    \/ LoadRfm
    \/ RfmSection
    \/ Rerun
    \/ ChangeFile

\* The process: runs of main, one after another, and changes of the file on disk.
Spec == Init /\ [][Next]_vars

RECURSIVE FlattenTo(_, _)
FlattenTo(ss, k) == IF k = 0 THEN <<>> ELSE FlattenTo(ss, k - 1) \o ss[k]

Flatten(ss) == FlattenTo(ss, Len(ss))

Repeat(x, n) == [i \in 1..n |-> x]

(***************************************************************************)
(* Files with many products, for the top-products aggregation: one row per *)
(* description 1..n with a quantity of 1 or 2, and optionally a second row *)
(* of description 1 sold in France.                                        *)
(***************************************************************************)
ProductRow(i, q) == [UKRow EXCEPT !.Description = i, !.Invoice = i, !.Quantity = q]

ProductTable(q, extra) ==
    [i \in 1..Len(q) |-> ProductRow(i, q[i])]
        \o (IF extra THEN <<[FRRow EXCEPT !.Description = 1]>> ELSE <<>>)

InitTop ==
    \E n \in (NDesc - 2)..NDesc :
        \E q \in [1..n -> {1, 2}], extra \in BOOLEAN :
            Fresh(CsvFile(ProductTable(q, extra)), SmallRfmFile)

SpecTop == InitTop /\ [][RunNext]_vars

(***************************************************************************)
(* Files covering the week from Monday 2010-12-27 to Sunday 2011-01-02,    *)
(* for the weekday and monthly aggregations: up to MaxPerDay rows on each  *)
(* day; the sales of Monday, Wednesday, Friday and Sunday are British, the *)
(* others French; a row of the i-th day has unit price i.                  *)
(***************************************************************************)
WeekDates == <<TS(2010, 12, 27, 9), TS(2010, 12, 28, 10), TS(2010, 12, 29, 11),
               TS(2010, 12, 30, 12), TS(2010, 12, 31, 13), TS(2011, 1, 1, 14),
               TS(2011, 1, 2, 15)>>

DayRow(i) ==
    [Invoice |-> i, Description |-> 1 + (i % 2), Quantity |-> 1, Price |-> i,
     InvoiceDate |-> WeekDates[i], CustomerID |-> NumId(10 * i),
     Country |-> IF i % 2 = 1 THEN "United Kingdom" ELSE "France"]

WeekTable(n) == Flatten([i \in 1..Len(WeekDates) |-> Repeat(DayRow(i), n[i])])

InitWeek ==
    \E n \in [1..Len(WeekDates) -> 0..MaxPerDay] :
        Fresh(CsvFile(WeekTable(n)), SmallRfmFile)

SpecWeek == InitWeek /\ [][RunNext]_vars

(***************************************************************************)
(* RFM files, for the segment-behaviour aggregation: each of the first     *)
(* NSeg segments of the taxonomy has no customer, one customer, or two.    *)
(***************************************************************************)
FrequencyLists == {<<>>, <<1>>, <<3>>, <<5>>, <<1, 5>>}

RfmRowsOf(seg, fs) == [i \in 1..Len(fs) |-> RfmRow(seg, fs[i], 10 * fs[i])]

\* The rows of the later segments of the taxonomy come first in the file.
RfmTable(fs) ==
    Flatten([i \in 1..NSeg |-> RfmRowsOf(custom_order[NSeg + 1 - i], fs[NSeg + 1 - i])])

InitRfm ==
    \E fs \in [1..NSeg -> FrequencyLists] :
        Fresh(CsvFile(<<UKRow, FRRow>>), [readable |-> TRUE, rows |-> RfmTable(fs)])

SpecRfm == InitRfm /\ [][RunNext]_vars

(***************************************************************************)
(* Properties.                                                             *)
(***************************************************************************)
Rows(t) == {t[i] : i \in 1..Len(t)}

\* The three cleaning conditions, on a row as it stands in the file.
RawOk(raw) == raw.Quantity > 0 /\ raw.Price > 0 /\ raw.CustomerID.kind = "num"

\* The row of the file that was loaded from which the table row r stems.
RawOf(r) == loadedRaw.rows[r.index + 1]

StemsFromCleanRow(r) ==
    /\ r.index + 1 \in 1..Len(loadedRaw.rows)
    /\ RawOk(RawOf(r))
    /\ r.Quantity = RawOf(r).Quantity
    /\ r.Price = RawOf(r).Price
    /\ r.Country = RawOf(r).Country
    /\ r.Description = RawOf(r).Description

RowIsClean(r) == r.Quantity > 0 /\ r.Price > 0 /\ r.CustomerID \in Int

\* The rows of the loaded file that are clean and of a selected country.
Counted(raw) == RawOk(raw) /\ raw.Country \in selected_countries

CountedRows == {i \in 1..Len(loadedRaw.rows) : Counted(loadedRaw.rows[i])}

CountedQuantity ==
    SumSeq([i \in 1..Len(loadedRaw.rows) |->
               IF i \in CountedRows THEN loadedRaw.rows[i].Quantity ELSE 0])

CountedRevenue ==
    SumSeq([i \in 1..Len(loadedRaw.rows) |->
               IF i \in CountedRows
               THEN loadedRaw.rows[i].Quantity * loadedRaw.rows[i].Price ELSE 0])

CountedQuantityOf(description) ==
    SumSeq([i \in 1..Len(loadedRaw.rows) |->
               IF i \in CountedRows /\ loadedRaw.rows[i].Description = description
               THEN loadedRaw.rows[i].Quantity ELSE 0])

\* C1: every row of the table load_sales_data returns has Quantity > 0, Price > 0
\* and an integer Customer ID; no row of the file that breaks one of the three
\* conditions is in the loaded table or in the country-filtered table, or is
\* counted in a KPI or in an aggregation of main.
C1_OnlyCleanRowsDownstream ==
    /\ ~df.none => \A r \in Rows(df.rows) : RowIsClean(r) /\ StemsFromCleanRow(r)
    /\ \A r \in Rows(filtered_df) : RowIsClean(r) /\ StemsFromCleanRow(r)
    /\ "total_revenue" \in invoked =>
          /\ kpi.total_revenue = CountedRevenue
          /\ kpi.total_items_sold = CountedQuantity
          /\ kpi.total_orders =
                Cardinality({loadedRaw.rows[i].Invoice : i \in CountedRows})
          /\ kpi.unique_customers =
                Cardinality({loadedRaw.rows[i].CustomerID.v \div 10 : i \in CountedRows})
    /\ "monthly_sales" \in invoked =>
          /\ SumSeq(Col(monthly_sales, "TotalPrice")) = CountedRevenue
          /\ SumSeq(Col(daily_sales, "TotalPrice")) = CountedRevenue
          /\ \A p \in Rows(top_products) :
                p.Quantity = CountedQuantityOf(p.Description)

\* A run in which dirty rows were dropped at load time and the aggregations ran.
C1_Witness ==
    /\ ~df.none
    /\ Len(df.rows) >= 1
    /\ Len(df.rows) < Len(loadedRaw.rows)
    /\ Len(filtered_df) >= 1
    /\ "monthly_sales" \in invoked

\* C2: in a run of main in which the sales table loaded and the selected-country
\* set is empty, the run halts at the check: the country filter, the KPI
\* reductions and the three aggregations are not invoked in that run.
C2_EmptySelectionHalts ==
    (~df.none /\ selected_countries = {} /\ pc \notin {"start", "widgets", "check"})
        => (pc = "stopped" /\ invoked = {})

\* A run that was halted on an empty selection.
C2_Witness ==
    pc = "stopped" /\ ~df.none /\ selected_countries = {} /\ invoked = {}

\* C3: the RFM section does not depend on the country filter: two runs of main
\* over the same inputs that differ in the selected countries end with the same
\* RFM section, which is rendered whenever rfm.csv loads.
C3_RfmIndependentOfFilter ==
    (/\ pc \in {"done", "stopped"}
     /\ ~df.none
     /\ prevRun.ended
     /\ prevRun.selected_countries # selected_countries)
        => /\ rfmView = prevRun.rfmView
           /\ ~load_rfm_data(rfmFile).none => rfmView.rendered

\* The causes of a failed load that C4 lists.
ListedFailure(f) ==
    \/ ~f.readable
    \/ "Customer ID" \in f.missing
    \/ \E i \in 1..Len(f.rows) : ~Parsable(f.rows[i].InvoiceDate)
    \/ \E i \in 1..Len(f.rows) : f.rows[i].CustomerID.kind = "str"

\* The table a successful load has to return: the clean rows of the file, in
\* file order, under their file positions, with the four derived columns.
ExpectedTable(f) ==
    LET ok == SelectSeq([i \in 1..Len(f.rows) |-> i], LAMBDA i : RawOk(f.rows[i]))
    IN [k \in 1..Len(ok) |->
           [index |-> ok[k] - 1,
            Invoice |-> f.rows[ok[k]].Invoice,
            Description |-> f.rows[ok[k]].Description,
            Quantity |-> f.rows[ok[k]].Quantity,
            Price |-> f.rows[ok[k]].Price,
            InvoiceDate |-> f.rows[ok[k]].InvoiceDate,
            CustomerID |-> f.rows[ok[k]].CustomerID.v \div 10,
            Country |-> f.rows[ok[k]].Country,
            TotalPrice |-> f.rows[ok[k]].Quantity * f.rows[ok[k]].Price,
            InvoiceMonth |-> 100 * f.rows[ok[k]].InvoiceDate.y + f.rows[ok[k]].InvoiceDate.m,
            Hour |-> f.rows[ok[k]].InvoiceDate.h,
            DayOfWeek |-> day_name(f.rows[ok[k]].InvoiceDate)]]

\* C4 as stated: load_sales_data returns None, after reporting an error, exactly
\* when the file cannot be read, the customer-identifier column is missing, a
\* timestamp is unparsable or a non-missing customer identifier is not a number;
\* otherwise it returns the fully cleaned table.
C4_FailsExactlyOnListedCauses ==
    salesCache.filled =>
        /\ salesCache.value.none <=> ListedFailure(loadedRaw)
        /\ salesCache.value.none => salesCache.value.err # ""
        /\ ~salesCache.value.none => salesCache.value.rows = ExpectedTable(loadedRaw)

\* C4, amended: a missing InvoiceDate, Quantity or Price column makes the load
\* fail as well.  load_sales_data returns None, after reporting an error, exactly
\* when the file cannot be read, one of the columns InvoiceDate, Customer ID,
\* Quantity, Price is missing, a timestamp is unparsable or a non-missing customer
\* identifier is not a number; otherwise it returns the fully cleaned table, and
\* main goes on with the value returned.
C4_FailsOrReturnsCleanTable ==
    /\ salesCache.filled =>
          /\ salesCache.value.none <=>
                (ListedFailure(loadedRaw) \/ loadedRaw.missing \cap LoaderColumns # {})
          /\ salesCache.value.none => salesCache.value.err # ""
          /\ ~salesCache.value.none => salesCache.value.rows = ExpectedTable(loadedRaw)
    /\ pc # "start" =>
          /\ salesCache.filled /\ df = salesCache.value
          /\ df.none => df.err \in errors

\* A load that failed on an unparsable timestamp in a row without a customer
\* identifier, which cleaning would have dropped.
C4_Witness ==
    /\ pc = "rfm"
    /\ df.none
    /\ errors = {"ValueError: time data"}
    /\ loadedRaw.missing = {}
    /\ \A i \in 1..Len(loadedRaw.rows) :
          ~Parsable(loadedRaw.rows[i].InvoiceDate) =>
              loadedRaw.rows[i].CustomerID.kind = "nan"

\* C9: after the first call of load_sales_data, every later call returns the
\* result of the first without reading the file again, whatever the file holds
\* by then, and no stage of a run changes the memoised table.
C9_LoadedOncePerProcess ==
    /\ [](fileReads <= 1)
    /\ [](pc # "start" => (salesCache.filled /\ df = salesCache.value))
    /\ [][salesCache.filled =>
             (salesCache' = salesCache /\ fileReads' = fileReads
              /\ loadedRaw' = loadedRaw)]_vars

\* A later run that received the first result although the file on disk now
\* loads to something else.
C9_Witness ==
    /\ prevRun.ended
    /\ pc = "widgets"
    /\ fileReads = 1
    /\ file # loadedRaw
    /\ load_sales_data(file) # df
    /\ df = load_sales_data(loadedRaw)

\* Sum of column val over the rows of t whose column key is k.
TotalWhere(t, key, k, val) ==
    SumSeq([i \in 1..Len(t) |-> IF t[i][key] = k THEN t[i][val] ELSE 0])

\* C5 as stated: for a non-empty filtered table the weekday aggregation has the
\* keys Monday, ..., Sunday, each once, every day with the revenue of its rows,
\* which is zero for a day without transactions.
C5_AllSevenDaysZeroFilled ==
    ("daily_sales" \in invoked /\ filtered_df # <<>>) =>
        /\ Len(daily_sales) = Len(days_order)
        /\ \A i \in 1..Len(daily_sales) :
              /\ daily_sales[i].DayOfWeek = days_order[i]
              /\ daily_sales[i].TotalPrice =
                    TotalWhere(filtered_df, "DayOfWeek", days_order[i], "TotalPrice")

\* C5, amended: a day without transactions in the filtered table is absent from
\* the weekday aggregation instead of appearing with revenue zero.  The keys are
\* exactly the days on which the filtered table has a row, each once, in the
\* order Monday, ..., Sunday, every day with the revenue of its rows.
C5_DaysPresentInCalendarOrder ==
    "daily_sales" \in invoked =>
        LET present == SelectSeq(days_order,
                                 LAMBDA d : \E r \in Rows(filtered_df) : r.DayOfWeek = d)
        IN /\ Len(daily_sales) = Len(present)
           /\ \A i \in 1..Len(daily_sales) :
                 /\ daily_sales[i].DayOfWeek = present[i]
                 /\ daily_sales[i].TotalPrice =
                       TotalWhere(filtered_df, "DayOfWeek", present[i], "TotalPrice")

\* An aggregation that omits a day and that the reordering has changed: Monday
\* stands right before Friday.
C5_Witness ==
    /\ "daily_sales" \in invoked
    /\ Len(daily_sales) < Len(days_order)
    /\ \E i \in 1..(Len(daily_sales) - 1) :
          daily_sales[i].DayOfWeek = "Monday" /\ daily_sales[i + 1].DayOfWeek = "Friday"

Smaller(a, b) == IF a < b THEN a ELSE b

FilteredDescriptions == {r.Description : r \in Rows(filtered_df)}

\* What C6 says apart from the order of the sums: at most 10 rows, as many as
\* there are descriptions up to 10, one row per description with the sum of its
\* quantities, and no omitted product sold more than a returned one.
TopProductsAreTheLargest ==
    /\ Len(top_products) = Smaller(TopN, Cardinality(FilteredDescriptions))
    /\ \A i \in 1..Len(top_products) :
          /\ top_products[i].Description \in FilteredDescriptions
          /\ top_products[i].Quantity =
                TotalWhere(filtered_df, "Description", top_products[i].Description,
                           "Quantity")
          /\ \A j \in 1..Len(top_products) :
                top_products[i].Description = top_products[j].Description => i = j
    /\ \A d \in FilteredDescriptions \ {p.Description : p \in Rows(top_products)} :
          \A p \in Rows(top_products) :
              TotalWhere(filtered_df, "Description", d, "Quantity") <= p.Quantity

\* C6 as stated: the returned sums are strictly descending.
C6_StrictlyDescending ==
    "top_products" \in invoked =>
        /\ TopProductsAreTheLargest
        /\ \A i \in 1..(Len(top_products) - 1) :
              top_products[i].Quantity > top_products[i + 1].Quantity

\* C6, amended: the returned sums are descending but not strictly: products with
\* equal sums stand next to each other.  The aggregation returns min(10, number
\* of distinct descriptions) rows, each with the sum of Quantity of its
\* description, no omitted product has a larger sum than a returned one, and no
\* returned sum is larger than the one before it.
C6_TopTenDescending ==
    "top_products" \in invoked =>
        /\ TopProductsAreTheLargest
        /\ \A i \in 1..(Len(top_products) - 1) :
              top_products[i].Quantity >= top_products[i + 1].Quantity

\* More than ten products, of which ten are returned, with a tie and a descent.
C6_Witness ==
    /\ "top_products" \in invoked
    /\ Cardinality(FilteredDescriptions) > TopN
    /\ Len(top_products) = TopN
    /\ \E i \in 1..(Len(top_products) - 1) :
          top_products[i].Quantity = top_products[i + 1].Quantity
    /\ \E i \in 1..(Len(top_products) - 1) :
          top_products[i].Quantity > top_products[i + 1].Quantity

HasMaxMean(i) ==
    \A j \in 1..Len(rfmView.mean_freq) :
        MeanLe(rfmView.mean_freq[j].Frequency, rfmView.mean_freq[i].Frequency)

HasMinMean(i) ==
    \A j \in 1..Len(rfmView.mean_freq) :
        MeanLe(rfmView.mean_freq[i].Frequency, rfmView.mean_freq[j].Frequency)

ColorGroupOf(i) == rfmView.mean_freq[i].ColorGroup

\* C7 as stated: every segment whose mean is the maximum is labelled 'Highest
\* Frequency', every segment whose mean is the minimum is labelled 'Lowest
\* Frequency', and every other segment is labelled 'Mid-Range'.
C7_MaxHighestMinLowest ==
    rfmView.rendered =>
        \A i \in 1..Len(rfmView.mean_freq) :
            /\ HasMaxMean(i) => ColorGroupOf(i) = "Highest Frequency"
            /\ HasMinMean(i) => ColorGroupOf(i) = "Lowest Frequency"
            /\ (~HasMaxMean(i) /\ ~HasMinMean(i)) => ColorGroupOf(i) = "Mid-Range"

\* C7, amended: a segment whose mean is the minimum is labelled 'Lowest
\* Frequency' only if that mean is below the maximum.  Every segment whose mean
\* is the maximum is labelled 'Highest Frequency', every segment whose mean is the
\* minimum and below the maximum is labelled 'Lowest Frequency', every other
\* segment is labelled 'Mid-Range'; all the segments tied at the maximum, and all
\* those tied at the minimum, are in the respective group.
C7_TiesShareTheGroup ==
    rfmView.rendered =>
        \A i \in 1..Len(rfmView.mean_freq) :
            /\ HasMaxMean(i) => ColorGroupOf(i) = "Highest Frequency"
            /\ (HasMinMean(i) /\ ~HasMaxMean(i)) => ColorGroupOf(i) = "Lowest Frequency"
            /\ (~HasMaxMean(i) /\ ~HasMinMean(i)) => ColorGroupOf(i) = "Mid-Range"

\* Two segments tied at the maximum, two tied at the minimum, the means of one
\* tie taken over different numbers of customers.
C7_Witness ==
    /\ rfmView.rendered
    /\ Len(rfmView.mean_freq) >= 4
    /\ \E i, j \in 1..Len(rfmView.mean_freq) :
          /\ i # j
          /\ ColorGroupOf(i) = "Highest Frequency"
          /\ ColorGroupOf(j) = "Highest Frequency"
          /\ rfmView.mean_freq[i].Frequency.count # rfmView.mean_freq[j].Frequency.count
    /\ \E i, j \in 1..Len(rfmView.mean_freq) :
          i # j /\ ColorGroupOf(i) = "Lowest Frequency"
                /\ ColorGroupOf(j) = "Lowest Frequency"

\* C10: every segment gets one of the three labels, and when the maximum and
\* the minimum mean coincide every segment is labelled 'Highest Frequency'.
C10_HighestTakesPrecedence ==
    rfmView.rendered =>
        /\ \A i \in 1..Len(rfmView.mean_freq) :
              ColorGroupOf(i) \in {"Highest Frequency", "Lowest Frequency", "Mid-Range"}
        /\ (\A i, j \in 1..Len(rfmView.mean_freq) :
                MeanEq(rfmView.mean_freq[i].Frequency, rfmView.mean_freq[j].Frequency))
              => \A i \in 1..Len(rfmView.mean_freq) :
                    ColorGroupOf(i) = "Highest Frequency"

\* Several segments, all with the same mean.
C10_Witness ==
    /\ rfmView.rendered
    /\ Len(rfmView.mean_freq) >= 3
    /\ \A i \in 1..Len(rfmView.mean_freq) :
          HasMaxMean(i) /\ HasMinMean(i) /\ ColorGroupOf(i) = "Highest Frequency"

====
